---- MODULE Spec2Model ----
(***************************************************************************)
(* Spotify Billboard Bridge (src/app.py): the chart scraper                *)
(* (BillboardScraper), the catalog session (SpotifyService), the process-  *)
(* wide service objects and the Flask request handlers built on them.      *)
(*                                                                         *)
(* Python values are modelled as follows.  A str is a sequence of one-     *)
(* character strings.  A dict is a record.  None is the record None.  A    *)
(* remote call (requests.get, a spotipy method) is an input of the         *)
(* operation that makes it: the operation takes a "script", the sequence   *)
(* of responses the remote gives to the calls actually made, in order,     *)
(* each either a raised exception or a returned value.                     *)
(***************************************************************************)
EXTENDS Integers, Sequences, FiniteSets, TLC

VARIABLES
  session,         \* caller -> that caller's Flask session (a dict; key token_info)
  sp,              \* spotify_service.sp: None or the spotipy client bound to a token
  everAuth,        \* history: has authenticate() succeeded on the service object
  authFailed,      \* history: has authenticate() failed on the service object
  calls,           \* outbound catalog calls of the operation just run, in order
  playlist_items,  \* contents of the remote playlist the operation added to
  result           \* the operation just run, its arguments and its return value

vars == <<session, sp, everAuth, authFailed, calls, playlist_items, result>>

\* ------------------------------------------------------------------ bounds

\* Largest number of matched elements on a page given to get_chart alone.
MaxElems == 101
\* Largest number of heading elements on a page fetched by an HTTP handler.
MaxSongs == 2
\* Largest number of track URIs given to add_tracks_to_playlist alone.
MaxTracks == 201

\* ------------------------------------------------------- program constants

\* song_elements[:100]
ElementLimit == 100
\* songs[:100]
ReturnLimit == 100
\* len(text) < 100
ArtistMaxLen == 100
\* chunk_size = 100
chunk_size == 100

\* ------------------------------------------------------------ Python values

None == [py |-> "None"]

Min(a, b) == IF a < b THEN a ELSE b

\* s[lo:hi] for 0 <= lo, 0 <= hi (Python clamps both ends to len(s)).
Slice(s, lo, hi) == SubSeq(s, Min(lo, Len(s)) + 1, Min(hi, Len(s)))

\* The alphabet of str values: whitespace, punctuation, and word characters
\* (every other character).
Whitespace == {" "}
Punctuation == {"!", "'", "\"", ":"}

RECURSIVE LStrip(_)
LStrip(s) ==
  IF s # <<>> /\ Head(s) \in Whitespace THEN LStrip(Tail(s)) ELSE s

RECURSIVE RStrip(_)
RStrip(s) ==
  IF s # <<>> /\ s[Len(s)] \in Whitespace
  THEN RStrip(SubSeq(s, 1, Len(s) - 1)) ELSE s

\* str.strip()
Strip(s) == RStrip(LStrip(s))

\* ------------------------------------------------------------ chart fetcher

(* A fetched page is the sequence of its heading elements in document      *)
(* order.  An element has its heading level (1..6), the set of primary     *)
(* selectors (1..4, in the order of the selectors list) that match it,     *)
(* its get_text(), and the get_text() of every p/span/div under its        *)
(* parent, in document order.  All four selectors end in h3, so only a     *)
(* level-3 heading can match one.                                          *)

Selectors == 1..4

\* soup.select(selector)
Select(page, s) == SelectSeq(page, LAMBDA e : e.level = 3 /\ s \in e.sel)

\* soup.find_all('h3')
FindAllH3(page) == SelectSeq(page, LAMBDA e : e.level = 3)

RECURSIVE FirstMatch(_, _)
FirstMatch(page, s) ==
  IF s \notin Selectors THEN <<>>
  ELSE IF Select(page, s) # <<>> THEN Select(page, s)
  ELSE FirstMatch(page, s + 1)

\* Mutant: the fallback scans headings of every level.
SongElements_AnyHeading(page) ==
  IF FirstMatch(page, 1) # <<>> THEN FirstMatch(page, 1) ELSE page

\* The selector cascade and the h3 fallback.
SongElements(page) ==
  IF FirstMatch(page, 1) # <<>> THEN FirstMatch(page, 1) ELSE FindAllH3(page)

\* "Unknown Artist"
UnknownArtist ==
  <<"U", "n", "k", "n", "o", "w", "n", " ", "A", "r", "t", "i", "s", "t">>

RECURSIVE FindArtist(_, _)
FindArtist(siblings, title) ==
  IF siblings = <<>> THEN UnknownArtist
  ELSE LET text == Strip(Head(siblings)) IN
       IF text # <<>> /\ text # title /\ Len(text) < ArtistMaxLen
       THEN text
       ELSE FindArtist(Tail(siblings), title)

\* The body of the loop over enumerate(song_elements[:100]), from index i on.
RECURSIVE ScanElements(_, _)
ScanElements(els, i) ==
  IF i >= Len(els) THEN <<>>
  ELSE LET title == Strip(els[i + 1].text) IN
       (IF title # <<>> /\ Len(title) > 1
        THEN << [position |-> i + 1, title |-> title,
                 artist |-> FindArtist(els[i + 1].near, title)] >>
        ELSE <<>>)
       \o ScanElements(els, i + 1)

\* Mutant: the matched elements are not cut to the first 100.
get_chart_NoElementLimit(fetch) ==
  IF fetch.raise THEN <<>>
  ELSE Slice(ScanElements(SongElements(fetch.page), 0), 0, ReturnLimit)

\* BillboardScraper.get_chart; fetch is the outcome of requests.get and
\* raise_for_status: an exception, or the page.
get_chart(fetch) ==
  IF fetch.raise THEN <<>>
  ELSE Slice(ScanElements(Slice(SongElements(fetch.page), 0, ElementLimit), 0),
             0, ReturnLimit)

\* ------------------------------------------------------------ pages (inputs)

LongText == [i \in 1..ArtistMaxLen |-> "z"]

\* The kinds of heading element the input pages are built from.
Kinds == <<
  [level |-> 3, sel |-> {1},    text |-> <<"a", "b">>,
   near |-> << <<"c", "d">> >>],
  [level |-> 3, sel |-> {},     text |-> <<" ", "a", " ">>,
   near |-> <<>>],
  [level |-> 2, sel |-> {},     text |-> <<"a", "b", "c">>,
   near |-> << <<"c">> >>],
  [level |-> 3, sel |-> {2, 4}, text |-> <<" ", "a", "b", " ">>,
   near |-> << <<" ">>, <<"a", "b">>, LongText, <<"d", "!">> >>],
  [level |-> 3, sel |-> {},     text |-> <<"a", "!", "c">>,
   near |-> << <<"a", "!", "c">> >>],
  [level |-> 3, sel |-> {},     text |-> <<>>,
   near |-> << <<"c", "d">> >>]
>>

KindIds == 1..Len(Kinds)

\* n elements: kind a before index cut, kind b from cut on.
SplitPage(n, a, b, cut) ==
  [i \in 1..n |-> IF i < cut THEN Kinds[a] ELSE Kinds[b]]

\* n elements: kinds a and b alternating.
AlternatingPage(n, a, b) ==
  [i \in 1..n |-> IF i % 2 = 1 THEN Kinds[a] ELSE Kinds[b]]

Cuts == {2, ElementLimit, ElementLimit + 1}

BigPages ==
  { SplitPage(n, a, b, cut) : n \in 0..MaxElems, a \in KindIds, b \in KindIds,
                              cut \in Cuts }
  \cup { AlternatingPage(n, a, b) : n \in 0..MaxElems, a \in KindIds,
                                    b \in KindIds }

Fetches(pages) ==
  { [raise |-> TRUE] } \cup { [raise |-> FALSE, page |-> p] : p \in pages }

\* ---------------------------------------------------------- catalog session

(* Opaque handles (authorization codes, access tokens, user and playlist   *)
(* ids) are TLA+ strings; track URIs are naturals.  A remote response is   *)
(* [raise |-> TRUE] or [raise |-> FALSE, value |-> v].  Every outbound     *)
(* call is logged as a record of its arguments, the token of the client    *)
(* that made it (auth) and the response it got (resp).                     *)

Raise == [raise |-> TRUE]
Ok(v) == [raise |-> FALSE, value |-> v]

\* spotipy.Spotify(auth=token)
Spotify(token) == [auth |-> token]

\* Mutant: the client is assigned before the token exchange is known to
\* have succeeded.
authenticate_ClientFirst(sp0, code, exchange) ==
  IF exchange.raise
  THEN [sp |-> Spotify("none"), ret |-> None]
  ELSE [sp |-> Spotify(exchange.value.access_token), ret |-> exchange.value]

\* SpotifyService.authenticate; exchange is the response of
\* sp_oauth.get_access_token(code).
authenticate(sp0, code, exchange) ==
  IF exchange.raise
  THEN [sp |-> sp0, ret |-> None]
  ELSE [sp |-> Spotify(exchange.value.access_token), ret |-> exchange.value]

\* re.sub(r'[^\w\s]', '', s)
Clean(s) == SelectSeq(s, LAMBDA ch : ch \notin Punctuation)

L_track == <<"t", "r", "a", "c", "k", ":">>
L_artist == <<"a", "r", "t", "i", "s", "t", ":">>
DQ == <<"\"">>
SPC == <<" ">>

\* Mutant: the two middle queries change places.
Queries_Swapped(title, artist) == <<
  L_track \o DQ \o title \o DQ \o SPC \o L_artist \o DQ \o artist \o DQ,
  title \o SPC \o artist,
  DQ \o title \o DQ \o SPC \o DQ \o artist \o DQ,
  L_track \o title \o SPC \o L_artist \o artist
>>

\* The queries list, built from the cleaned title and artist.
Queries(title, artist) == <<
  L_track \o DQ \o title \o DQ \o SPC \o L_artist \o DQ \o artist \o DQ,
  DQ \o title \o DQ \o SPC \o DQ \o artist \o DQ,
  title \o SPC \o artist,
  L_track \o title \o SPC \o L_artist \o artist
>>

\* The dict search_track returns for a hit.
TrackInfo(track) ==
  [uri |-> track.uri, name |-> track.name,
   artist |-> track.artists[1].name, popularity |-> track.popularity]

\* The loop over queries, from the k-th query on.
RECURSIVE RunQueries(_, _, _, _)
RunQueries(sp0, queries, script, k) ==
  IF k > Len(queries) THEN [ret |-> None, calls |-> <<>>]
  ELSE LET call == [api |-> "search", auth |-> sp0.auth, q |-> queries[k],
                    type |-> "track", limit |-> 5, resp |-> script[k]]
       IN  IF script[k].raise
           THEN [ret |-> None, calls |-> <<call>>]
           ELSE IF script[k].value.tracks.items # <<>>
           THEN [ret |-> TrackInfo(script[k].value.tracks.items[1]),
                 calls |-> <<call>>]
           ELSE LET r == RunQueries(sp0, queries, script, k + 1)
                IN  [ret |-> r.ret, calls |-> <<call>> \o r.calls]

\* SpotifyService.search_track
search_track(sp0, title, artist, script) ==
  IF sp0 = None THEN [ret |-> None, calls |-> <<>>]
  ELSE RunQueries(sp0, Queries(Clean(title), Clean(artist)), script, 1)

\* SpotifyService.create_playlist
create_playlist(sp0, name, description, public, script) ==
  IF sp0 = None THEN [ret |-> None, calls |-> <<>>]
  ELSE LET c1 == [api |-> "current_user", auth |-> sp0.auth,
                  resp |-> script[1]] IN
       IF script[1].raise THEN [ret |-> None, calls |-> <<c1>>]
       ELSE LET c2 == [api |-> "user_playlist_create", auth |-> sp0.auth,
                       user |-> script[1].value.id, name |-> name,
                       description |-> description, public |-> public,
                       resp |-> script[2]]
            IN  IF script[2].raise THEN [ret |-> None, calls |-> <<c1, c2>>]
                ELSE [ret |-> script[2].value, calls |-> <<c1, c2>>]

\* The loop over range(0, len(track_uris), chunk_size), from offset i on;
\* added is what the successful calls put into the playlist.
RECURSIVE AddChunks(_, _, _, _, _)
AddChunks(sp0, playlist_id, track_uris, i, script) ==
  IF i >= Len(track_uris) THEN [ret |-> TRUE, calls |-> <<>>, added |-> <<>>]
  ELSE LET chunk == Slice(track_uris, i, i + chunk_size)
           call == [api |-> "playlist_add_items", auth |-> sp0.auth,
                    playlist_id |-> playlist_id, items |-> chunk,
                    resp |-> Head(script)]
       IN  IF Head(script).raise
           THEN [ret |-> FALSE, calls |-> <<call>>, added |-> <<>>]
           ELSE LET r == AddChunks(sp0, playlist_id, track_uris,
                                   i + chunk_size, Tail(script))
                IN  [ret |-> r.ret, calls |-> <<call>> \o r.calls,
                     added |-> chunk \o r.added]

\* Mutant: one add-items call with the whole list.
add_tracks_to_playlist_Unchunked(sp0, playlist_id, track_uris, script) ==
  IF sp0 = None \/ track_uris = <<>>
  THEN [ret |-> sp0 # None, calls |-> <<>>, added |-> <<>>]
  ELSE LET call == [api |-> "playlist_add_items", auth |-> sp0.auth,
                    playlist_id |-> playlist_id, items |-> track_uris,
                    resp |-> Head(script)]
       IN  [ret |-> ~Head(script).raise, calls |-> <<call>>,
            added |-> IF Head(script).raise THEN <<>> ELSE track_uris]

\* Mutant: the except branch returns True.
add_tracks_to_playlist_TrueOnError(sp0, playlist_id, track_uris, script) ==
  IF sp0 = None THEN [ret |-> FALSE, calls |-> <<>>, added |-> <<>>]
  ELSE [AddChunks(sp0, playlist_id, track_uris, 0, script) EXCEPT !.ret = TRUE]

\* SpotifyService.add_tracks_to_playlist
add_tracks_to_playlist(sp0, playlist_id, track_uris, script) ==
  IF sp0 = None THEN [ret |-> FALSE, calls |-> <<>>, added |-> <<>>]
  ELSE AddChunks(sp0, playlist_id, track_uris, 0, script)

\* ------------------------------------------------- remote responses (inputs)

Codes == {"code_A", "code_B", "bad"}

\* The token the accounts service issues for a valid code.
TokenInfo(code) ==
  [access_token |-> IF code = "code_A" THEN "tok_A" ELSE "tok_B",
   refresh_token |-> "refresh", expires_in |-> 3600]

\* get_access_token raises for a code the accounts service rejects, and may
\* raise (network) for a valid one.
Exchanges(code) ==
  IF code \in {"code_A", "code_B"} THEN {Raise, Ok(TokenInfo(code))} ELSE {Raise}

\* A track object of a search result, as the Web API returns it: it has a
\* uri, a name, a popularity and at least one artist.
Track(uri) ==
  [uri |-> uri, name |-> <<"n", uri>>, artists |-> << [name |-> <<"r", uri>>] >>,
   popularity |-> 50]

SearchResult(tracks) == Ok([tracks |-> [items |-> tracks]])

\* The responses to the search calls of one search_track: no hits k-1 times,
\* then a raise or one of hitLists; or no hits four times.
SearchScripts(hitLists) ==
  LET Misses(k) == [i \in 1..k |-> SearchResult(<<>>)]
      Last == {Raise} \cup { SearchResult(h) : h \in hitLists }
  IN  { Misses(k) \o <<l>> : k \in 0..3, l \in Last } \cup { Misses(4) }

SearchScriptsFor(sp0, hitLists) ==
  IF sp0 = None THEN { <<>> } ELSE SearchScripts(hitLists)

User(token) == [id |-> IF token = "tok_A" THEN "user_A" ELSE "user_B"]

Playlist(name) ==
  [id |-> "pl", name |-> name, external_urls |-> [spotify |-> "url_pl"]]

CreateScriptsFor(sp0, name) ==
  IF sp0 = None THEN { <<>> }
  ELSE { <<Raise>>, <<Ok(User(sp0.auth)), Raise>>,
         <<Ok(User(sp0.auth)), Ok(Playlist(name))>> }

\* ceil(n / chunk_size)
NumChunks(n) == (n + chunk_size - 1) \div chunk_size

\* The responses to the add-items calls for n URIs: all succeed, or the
\* k-th raises after k-1 successes.
AddScriptsFor(sp0, n) ==
  IF sp0 = None THEN { <<>> }
  ELSE { [i \in 1..NumChunks(n) |-> Ok("snapshot")] }
       \cup { [i \in 1..k |-> IF i < k THEN Ok("snapshot") ELSE Raise] :
              k \in 1..NumChunks(n) }

\* ------------------------------------------------------------------- state

NoResult == [op |-> "idle"]

Init ==
  /\ session = [c \in {"A", "B"} |-> <<>>]
  /\ sp = None
  /\ everAuth = FALSE
  /\ authFailed = FALSE
  /\ calls = <<>>
  /\ playlist_items = <<>>
  /\ result = NoResult

\* The caller takes the return value (or the client the response); the next
\* operation starts from here.
Return ==
  /\ result # NoResult
  /\ result' = NoResult
  /\ calls' = <<>>
  /\ playlist_items' = <<>>
  /\ UNCHANGED <<session, sp, everAuth, authFailed>>

\* ------------------------------------------------- get_chart called directly

GetChart ==
  /\ result = NoResult
  /\ \E fetch \in Fetches(BigPages) :
       result' = [op |-> "get_chart", fetch |-> fetch, ret |-> get_chart(fetch)]
  /\ UNCHANGED <<session, sp, everAuth, authFailed, calls, playlist_items>>

NextChart == GetChart \/ Return

SpecChart == Init /\ [][NextChart]_vars

\* ------------------------------------- SpotifyService methods called directly

Titles == { <<"a", "b">>, <<"a", "!", " ", "b">>, <<>> }
Artists == { <<"c">>, <<"d", "'", "c">> }

\* What a search returns: one hit, or several.
HitLists == { <<Track(1)>>, <<Track(2), Track(1)>> }

\* track_uris of length n: all distinct, or with repeats.
UriLists(n) == { [i \in 1..n |-> i], [i \in 1..n |-> i % 3] }

Authenticate ==
  /\ result = NoResult
  /\ \E code \in Codes : \E exchange \in Exchanges(code) :
       LET r == authenticate(sp, code, exchange) IN
         /\ sp' = r.sp
         /\ everAuth' = (everAuth \/ r.ret # None)
         /\ authFailed' = (authFailed \/ r.ret = None)
         /\ result' = [op |-> "authenticate", code |-> code, ret |-> r.ret]
  /\ UNCHANGED <<session, calls, playlist_items>>

SearchTrack ==
  /\ result = NoResult
  /\ \E title \in Titles : \E artist \in Artists :
     \E script \in SearchScriptsFor(sp, HitLists) :
       LET r == search_track(sp, title, artist, script) IN
         /\ calls' = r.calls
         /\ result' = [op |-> "search_track", title |-> title,
                       artist |-> artist, ret |-> r.ret]
  /\ UNCHANGED <<session, sp, everAuth, authFailed, playlist_items>>

CreatePlaylist ==
  /\ result = NoResult
  /\ \E name \in { <<"Mix">>, <<>> } : \E public \in BOOLEAN :
     \E script \in CreateScriptsFor(sp, name) :
       LET r == create_playlist(sp, name, <<>>, public, script) IN
         /\ calls' = r.calls
         /\ result' = [op |-> "create_playlist", name |-> name, ret |-> r.ret]
  /\ UNCHANGED <<session, sp, everAuth, authFailed, playlist_items>>

AddTracks ==
  /\ result = NoResult
  /\ \E n \in 0..MaxTracks : \E track_uris \in UriLists(n) :
     \E script \in AddScriptsFor(sp, n) :
       LET r == add_tracks_to_playlist(sp, "pl", track_uris, script) IN
         /\ calls' = r.calls
         /\ playlist_items' = r.added
         /\ result' = [op |-> "add_tracks_to_playlist",
                       track_uris |-> track_uris, ret |-> r.ret]
  /\ UNCHANGED <<session, sp, everAuth, authFailed>>

NextService ==
  Authenticate \/ SearchTrack \/ CreatePlaylist \/ AddTracks \/ Return

SpecService == Init /\ [][NextService]_vars

\* ----------------------------------------------------------- request handlers

\* k in d, and the truthiness of d.get(k) for a str value
Has(d, k) == k \in DOMAIN d
Truthy(d, k) == Has(d, k) /\ d[k] # <<>>

\* d[k] = v
SetItem(d, k, v) == [x \in DOMAIN d \cup {k} |-> IF x = k THEN v ELSE d[x]]

\* GET /callback.  attempt is the return value of authenticate when it was
\* called (history only).
callback(sess, sp0, args, exchange) ==
  IF Has(args, "code") /\ args.code # ""
  THEN LET r == authenticate(sp0, args.code, exchange) IN
       IF r.ret # None
       THEN [session |-> SetItem(sess, "token_info", r.ret), sp |-> r.sp,
             status |-> 200, attempt |-> <<r.ret>>,
             body |-> [status |-> "success",
                       message |-> "Authentication successful"]]
       ELSE [session |-> sess, sp |-> r.sp, status |-> 400,
             attempt |-> <<r.ret>>,
             body |-> [status |-> "error", message |-> "Authentication failed"]]
  ELSE [session |-> sess, sp |-> sp0, status |-> 400, attempt |-> <<>>,
        body |-> [status |-> "error", message |-> "Authentication failed"]]

\* datetime.now().strftime("%Y-%m-%d")
Today == "today"

\* The playlist name and description create_playlist builds (strings as
\* sequences of their parts).
PlaylistName(data) ==
  IF Truthy(data, "playlist_name") THEN data.playlist_name
  ELSE <<"Billboard Hot 100 - ",
         IF Has(data, "date") /\ data.date # "" THEN data.date ELSE Today>>

Description(data) ==
  <<"Billboard Hot 100 chart from ",
    IF Has(data, "date") /\ data.date # "" THEN data.date ELSE "current week",
    ". Created with Spotify Billboard Bridge.">>

(* The handler's outbound steps (history only): the chart fetch and the     *)
(* service methods it invokes, in the order it invokes them, each with its *)
(* arguments.  A method invoked on a service whose sp is None is a step     *)
(* that makes no remote call.                                              *)
FetchStep == [step |-> "get_chart"]
SearchStep(song) ==
  [step |-> "search_track", title |-> song.title, artist |-> song.artist]
CreateStep(name) == [step |-> "create_playlist", name |-> name]
AddStep(playlist_id, track_uris) ==
  [step |-> "add_tracks_to_playlist", playlist_id |-> playlist_id,
   track_uris |-> track_uris]

\* Mutant: a song whose search returned nothing is not recorded.
LoopStep_DropsMissing(acc, song, r) ==
  IF r.ret # None
  THEN [acc EXCEPT
          !.track_uris = Append(@, r.ret.uri),
          !.found_tracks =
             Append(@, [position |-> song.position, title |-> song.title,
                        artist |-> song.artist, spotify_name |-> r.ret.name,
                        spotify_artist |-> r.ret.artist]),
          !.calls = @ \o r.calls,
          !.steps = Append(@, SearchStep(song))]
  ELSE [acc EXCEPT !.calls = @ \o r.calls,
                   !.steps = Append(@, SearchStep(song))]

\* One iteration of the loop over songs; r is what search_track returned.
LoopStep(acc, song, r) ==
  IF r.ret # None
  THEN [acc EXCEPT
          !.track_uris = Append(@, r.ret.uri),
          !.found_tracks =
             Append(@, [position |-> song.position, title |-> song.title,
                        artist |-> song.artist, spotify_name |-> r.ret.name,
                        spotify_artist |-> r.ret.artist]),
          !.calls = @ \o r.calls,
          !.steps = Append(@, SearchStep(song))]
  ELSE [acc EXCEPT !.missing_tracks = Append(@, song), !.calls = @ \o r.calls,
                   !.steps = Append(@, SearchStep(song))]

\* The loop over songs, from the k-th song on.
RECURSIVE SearchLoop(_, _, _, _, _)
SearchLoop(sp0, songs, scripts, k, acc) ==
  IF k > Len(songs) THEN acc
  ELSE SearchLoop(sp0, songs, scripts, k + 1,
         LoopStep(acc, songs[k],
                  search_track(sp0, songs[k].title, songs[k].artist, scripts[k])))

SearchAll(sp0, songs, scripts) ==
  SearchLoop(sp0, songs, scripts, 1,
    [found_tracks |-> <<>>, missing_tracks |-> <<>>, track_uris |-> <<>>,
     calls |-> <<>>, steps |-> <<>>])

\* Mutant: add_tracks_to_playlist is called whether or not a track was
\* found.
AddFound_Unguarded(sp0, playlist, track_uris, addScript) ==
  LET add == add_tracks_to_playlist(sp0, playlist.id, track_uris, addScript)
  IN  [ret |-> add.ret, calls |-> add.calls, added |-> add.added,
       steps |-> <<AddStep(playlist.id, track_uris)>>]

\* success = False; if track_uris: success = add_tracks_to_playlist(...)
AddFound(sp0, playlist, track_uris, addScript) ==
  IF track_uris # <<>>
  THEN LET add == add_tracks_to_playlist(sp0, playlist.id, track_uris,
                                         addScript)
       IN  [ret |-> add.ret, calls |-> add.calls, added |-> add.added,
            steps |-> <<AddStep(playlist.id, track_uris)>>]
  ELSE [ret |-> FALSE, calls |-> <<>>, added |-> <<>>, steps |-> <<>>]

\* POST /api/create_playlist.  fetched and songs record whether the chart
\* was fetched and what it held, steps the outbound steps taken (history
\* only).  A body that is JSON null makes data.get raise, which Flask
\* answers with 500.
create_playlist_route(sess, sp0, data, fetch, searchScripts, createScript, addScript) ==
  IF ~Has(sess, "token_info")
  THEN [status |-> 401, body |-> [error |-> "Not authenticated with Spotify"],
        calls |-> <<>>, added |-> <<>>, fetched |-> FALSE, songs |-> <<>>,
        steps |-> <<>>]
  ELSE IF data = None
  THEN [status |-> 500, body |-> [error |-> "Internal Server Error"],
        calls |-> <<>>, added |-> <<>>, fetched |-> FALSE, songs |-> <<>>,
        steps |-> <<>>]
  ELSE
  LET songs == get_chart(fetch) IN
  IF songs = <<>>
  THEN [status |-> 500, body |-> [error |-> "Failed to fetch Billboard chart"],
        calls |-> <<>>, added |-> <<>>, fetched |-> TRUE, songs |-> songs,
        steps |-> <<FetchStep>>]
  ELSE
  LET found == SearchAll(sp0, songs, searchScripts)
      made == create_playlist(sp0, PlaylistName(data), Description(data),
                              IF Has(data, "public") THEN data.public ELSE TRUE,
                              createScript)
      playlist == made.ret
  IN
  IF playlist = None
  THEN [status |-> 500, body |-> [error |-> "Failed to create Spotify playlist"],
        calls |-> found.calls \o made.calls, added |-> <<>>,
        fetched |-> TRUE, songs |-> songs,
        steps |-> <<FetchStep>> \o found.steps
                    \o <<CreateStep(PlaylistName(data))>>]
  ELSE
  LET add == AddFound(sp0, playlist, found.track_uris, addScript)
      success == add.ret
  IN  [status |-> 200,
       body |-> [status |-> IF success THEN "success" ELSE "partial_success",
                 playlist |-> [id |-> playlist.id, name |-> playlist.name,
                               url |-> playlist.external_urls.spotify],
                 stats |-> [total_songs |-> Len(songs),
                            found |-> Len(found.found_tracks),
                            missing |-> Len(found.missing_tracks)],
                 found_tracks |-> found.found_tracks,
                 missing_tracks |-> found.missing_tracks],
       calls |-> found.calls \o made.calls \o add.calls, added |-> add.added,
       fetched |-> TRUE, songs |-> songs,
       steps |-> <<FetchStep>> \o found.steps
                   \o <<CreateStep(PlaylistName(data))>> \o add.steps]

\* GET /api/status
status_route(sess, sp0, script) ==
  IF Has(sess, "token_info") /\ sp0 # None
  THEN LET call == [api |-> "current_user", auth |-> sp0.auth,
                    resp |-> script[1]]
       IN  IF script[1].raise
           THEN [status |-> 200, calls |-> <<call>>,
                 body |-> [authenticated |-> FALSE, user |-> None]]
           ELSE [status |-> 200, calls |-> <<call>>,
                 body |-> [authenticated |-> TRUE, user |-> script[1].value]]
  ELSE [status |-> 200, calls |-> <<>>,
        body |-> [authenticated |-> Has(sess, "token_info"), user |-> None]]

\* Mutant: the parameters are validated before the session is looked at.
search_track_route_ParamsFirst(sess, sp0, args, script) ==
  IF ~Truthy(args, "title") \/ ~Truthy(args, "artist")
  THEN [status |-> 400, body |-> [error |-> "Title and artist required"],
        calls |-> <<>>]
  ELSE IF ~Has(sess, "token_info")
  THEN [status |-> 401, body |-> [error |-> "Not authenticated"],
        calls |-> <<>>]
  ELSE LET r == search_track(sp0, args.title, args.artist, script) IN
       IF r.ret # None
       THEN [status |-> 200, body |-> [status |-> "found", track |-> r.ret],
             calls |-> r.calls]
       ELSE [status |-> 200, body |-> [status |-> "not_found"],
             calls |-> r.calls]

\* GET /api/search_track
search_track_route(sess, sp0, args, script) ==
  IF ~Has(sess, "token_info")
  THEN [status |-> 401, body |-> [error |-> "Not authenticated"],
        calls |-> <<>>]
  ELSE IF ~Truthy(args, "title") \/ ~Truthy(args, "artist")
  THEN [status |-> 400, body |-> [error |-> "Title and artist required"],
        calls |-> <<>>]
  ELSE LET r == search_track(sp0, args.title, args.artist, script) IN
       IF r.ret # None
       THEN [status |-> 200, body |-> [status |-> "found", track |-> r.ret],
             calls |-> r.calls]
       ELSE [status |-> 200, body |-> [status |-> "not_found"],
             calls |-> r.calls]

\* ------------------------------------------------------------ requests (inputs)

Callers == {"A", "B"}

EmptyDict == [k \in {} |-> None]

\* Each caller holds the authorization code of their own account.
CallbackArgs(c) ==
  { EmptyDict, [code |-> ""], [code |-> "bad"],
    [code |-> IF c = "A" THEN "code_A" ELSE "code_B"] }

\* The parsed request body: a JSON object, every key optional, or null.
Bodies ==
  { EmptyDict, None,
    [date |-> "2024-01-06", playlist_name |-> <<"Mix">>, public |-> FALSE] }

SearchArgs ==
  { EmptyDict, [title |-> <<"a", "!">>], [artist |-> <<"c">>],
    [title |-> <<"a", "!">>, artist |-> <<>>],
    [title |-> <<"a", "!">>, artist |-> <<"c">>] }

\* Pages of at most MaxSongs headings: a chart title, or a one-letter one.
SmallPages ==
  UNION { [1..n -> {Kinds[1], Kinds[2]}] : n \in 0..MaxSongs }

\* The catalog's hit for a chart entry.
HitListsFor(song) == { <<Track(song.position)>> }

\* The sequences whose k-th element is drawn from sets[k].
RECURSIVE SeqProduct(_)
SeqProduct(sets) ==
  IF sets = <<>> THEN { <<>> }
  ELSE { <<h>> \o t : h \in Head(sets), t \in SeqProduct(Tail(sets)) }

\* ------------------------------------------------------------------ requests

CallbackReq ==
  /\ result = NoResult
  /\ \E c \in Callers : \E args \in CallbackArgs(c) :
     \E exchange \in (IF Has(args, "code") /\ args.code # ""
                      THEN Exchanges(args.code) ELSE {Raise}) :
       LET r == callback(session[c], sp, args, exchange) IN
         /\ session' = [session EXCEPT ![c] = r.session]
         /\ sp' = r.sp
         /\ everAuth' = (everAuth \/ (r.attempt # <<>> /\ r.status = 200))
         /\ authFailed' = (authFailed \/ (r.attempt # <<>> /\ r.status = 400))
         /\ result' = [op |-> "GET /callback", caller |-> c, args |-> args,
                       status |-> r.status, body |-> r.body]
  /\ UNCHANGED <<calls, playlist_items>>

CreatePlaylistReq ==
  /\ result = NoResult
  /\ \E c \in Callers : \E data \in Bodies :
     \E fetch \in (IF Has(session[c], "token_info") /\ data # None
                   THEN Fetches(SmallPages) ELSE {Raise}) :
       LET songs == get_chart(fetch) IN
       \E searchScripts \in
            SeqProduct([k \in 1..Len(songs) |->
                          SearchScriptsFor(sp, HitListsFor(songs[k]))]) :
       \E createScript \in (IF songs = <<>> THEN { <<>> }
                            ELSE CreateScriptsFor(sp, PlaylistName(data))) :
       \E addScript \in
            AddScriptsFor(sp, Len(SearchAll(sp, songs, searchScripts).track_uris)) :
         LET r == create_playlist_route(session[c], sp, data, fetch,
                                        searchScripts, createScript, addScript)
         IN  /\ calls' = r.calls
             /\ playlist_items' = r.added
             /\ result' = [op |-> "POST /api/create_playlist", caller |-> c,
                           data |-> data, fetched |-> r.fetched,
                           songs |-> r.songs, steps |-> r.steps,
                           status |-> r.status,
                           body |-> r.body]
  /\ UNCHANGED <<session, sp, everAuth, authFailed>>

StatusReq ==
  /\ result = NoResult
  /\ \E c \in Callers :
     \E script \in (IF sp = None THEN { <<>> }
                    ELSE { <<Raise>>, <<Ok(User(sp.auth))>> }) :
       LET r == status_route(session[c], sp, script) IN
         /\ calls' = r.calls
         /\ result' = [op |-> "GET /api/status", caller |-> c,
                       status |-> r.status, body |-> r.body]
  /\ UNCHANGED <<session, sp, everAuth, authFailed, playlist_items>>

SearchTrackReq ==
  /\ result = NoResult
  /\ \E c \in Callers : \E args \in SearchArgs :
     \E script \in SearchScriptsFor(sp, HitLists) :
       LET r == search_track_route(session[c], sp, args, script) IN
         /\ calls' = r.calls
         /\ result' = [op |-> "GET /api/search_track", caller |-> c,
                       args |-> args, status |-> r.status, body |-> r.body]
  /\ UNCHANGED <<session, sp, everAuth, authFailed, playlist_items>>

\* The process is started again: the module-level service objects are built
\* anew, while the callers keep their signed session cookies.
Restart ==
  /\ result = NoResult
  /\ sp # None
  /\ sp' = None
  /\ everAuth' = FALSE
  /\ authFailed' = FALSE
  /\ UNCHANGED <<session, calls, playlist_items, result>>

Next ==
  CallbackReq \/ CreatePlaylistReq \/ StatusReq \/ SearchTrackReq \/ Restart
    \/ Return

Spec == Init /\ [][Next]_vars

\* ===================================================================== claims

\* ceil(n / d), stated without the model's NumChunks.
CeilDiv(n, d) == IF n % d = 0 THEN n \div d ELSE (n \div d) + 1

RECURSIVE Concat(_)
Concat(ss) == IF ss = <<>> THEN <<>> ELSE Head(ss) \o Concat(Tail(ss))

\* The identifiers carried by the calls cs, in call order.
ItemsOf(cs) == Concat([k \in 1..Len(cs) |-> cs[k].items])

AddRan == result.op = "add_tracks_to_playlist"

\* C3 as stated: on an authenticated session add_tracks_to_playlist with N
\* identifiers issues exactly ceil(N/100) add-items calls of 1..100
\* identifiers each, whose concatenation is the original sequence.
C3_ExactlyCeilCalls ==
  (AddRan /\ sp # None) =>
    /\ Len(calls) = CeilDiv(Len(result.track_uris), 100)
    /\ \A k \in 1..Len(calls) :
         calls[k].api = "playlist_add_items" /\ Len(calls[k].items) \in 1..100
    /\ ItemsOf(calls) = result.track_uris

\* C3 amended: the calls issued are the leading chunks of the sequence, in
\* order, each of 1..100 identifiers, at most ceil(N/100) of them; only the
\* last call issued may have raised; and when no call raised there are
\* exactly ceil(N/100) calls whose concatenation is the original sequence
\* (none for N = 0).
C3_ChunksInOrder ==
  (AddRan /\ sp # None) =>
    LET uris == result.track_uris
        N == Len(uris)
        m == Len(calls)
    IN  /\ m <= CeilDiv(N, 100)
        /\ \A k \in 1..m :
             /\ calls[k].api = "playlist_add_items"
             /\ Len(calls[k].items) \in 1..100
             /\ calls[k].items =
                  [j \in 1..Min(100, N - 100 * (k - 1)) |-> uris[100 * (k - 1) + j]]
             /\ calls[k].resp.raise => k = m
        /\ (\A k \in 1..m : ~calls[k].resp.raise) =>
             (m = CeilDiv(N, 100) /\ ItemsOf(calls) = uris)

C3_Witness ==
  /\ AddRan /\ sp # None
  /\ Len(result.track_uris) = 201
  /\ Len(calls) = 3
  /\ \A k \in 1..3 : ~calls[k].resp.raise
  /\ Len(calls[3].items) = 1

\* C6: add_tracks_to_playlist returns True exactly when every chunk's
\* add-items call was issued and succeeded; a call that raises is the last
\* one issued and makes the result False, and the chunks added before it
\* stay in the playlist; on a session never authenticated it returns False
\* and issues no call.
C6_TrueIffAllChunksAdded ==
  AddRan =>
    IF ~everAuth
    THEN result.ret = FALSE /\ calls = <<>> /\ playlist_items = <<>>
    ELSE LET N == Len(result.track_uris)
             m == Len(calls)
             okCalls == SelectSeq(calls, LAMBDA c : ~c.resp.raise)
         IN  /\ result.ret = TRUE <=>
                  (m = CeilDiv(N, 100) /\ \A k \in 1..m : ~calls[k].resp.raise)
             /\ \A k \in 1..m :
                  /\ calls[k].api = "playlist_add_items"
                  /\ calls[k].resp.raise => (result.ret = FALSE /\ k = m)
             /\ playlist_items = ItemsOf(okCalls)
             /\ playlist_items = SubSeq(result.track_uris, 1, Len(playlist_items))

C6_Witness ==
  /\ AddRan /\ everAuth
  /\ Len(result.track_uris) = 201
  /\ Len(calls) = 2
  /\ calls[2].resp.raise
  /\ result.ret = FALSE
  /\ Len(playlist_items) = 100

\* C7: while no authenticate call has succeeded on the service object,
\* search_track returns None and create_playlist returns None, each without
\* issuing any remote call.
C7_NotReadyReturnsNone ==
  (~everAuth /\ result.op \in {"search_track", "create_playlist"}) =>
    (result.ret = None /\ calls = <<>>)

C7_Witness ==
  /\ ~everAuth /\ authFailed
  /\ result.op = "search_track"
  /\ result.title = <<"a", "!", " ", "b">>
  /\ result.ret = None

\* The four query forms of C8, for a cleaned title t and artist a.
C8_Forms(t, a) == <<
  <<"t", "r", "a", "c", "k", ":", "\"">> \o t
    \o <<"\"", " ", "a", "r", "t", "i", "s", "t", ":", "\"">> \o a \o <<"\"">>,
  <<"\"">> \o t \o <<"\"", " ", "\"">> \o a \o <<"\"">>,
  t \o <<" ">> \o a,
  <<"t", "r", "a", "c", "k", ":">> \o t
    \o <<" ", "a", "r", "t", "i", "s", "t", ":">> \o a
>>

\* C8: on an authenticated session search_track issues the four queries in
\* the fixed order, the k-th call being the k-th form; every call but the
\* last returned no hits; the last call either raised (result None), or
\* returned hits (result: the first hit's uri, name, primary artist and
\* popularity), or was the fourth and returned no hits (result None).
C8_QueriesInOrder ==
  (result.op = "search_track" /\ sp # None) =>
    LET forms == C8_Forms(Clean(result.title), Clean(result.artist))
        m == Len(calls)
        last == calls[m].resp
    IN  /\ m \in 1..4
        /\ \A k \in 1..m : calls[k].api = "search" /\ calls[k].q = forms[k]
        /\ \A k \in 1..(m - 1) :
             ~calls[k].resp.raise /\ calls[k].resp.value.tracks.items = <<>>
        /\ IF last.raise THEN result.ret = None
           ELSE IF last.value.tracks.items = <<>>
           THEN m = 4 /\ result.ret = None
           ELSE LET hit == last.value.tracks.items[1]
                IN  result.ret = [uri |-> hit.uri, name |-> hit.name,
                                  artist |-> hit.artists[1].name,
                                  popularity |-> hit.popularity]

C8_Witness ==
  /\ result.op = "search_track" /\ sp # None
  /\ result.title = <<"a", "!", " ", "b">>
  /\ Len(calls) = 3
  /\ ~calls[3].resp.raise
  /\ Len(calls[3].resp.value.tracks.items) = 2
  /\ result.ret # None
  /\ result.ret.uri = 2

CreateAnswered200 ==
  result.op = "POST /api/create_playlist" /\ result.status = 200

\* C1: every catalog call made while serving a caller's create_playlist,
\* search_track or status request is made under the access token stored in
\* that caller's own session.
C1_OwnCredential ==
  (result.op \in {"POST /api/create_playlist", "GET /api/search_track",
                  "GET /api/status"} /\ calls # <<>>) =>
    /\ Has(session[result.caller], "token_info")
    /\ \A k \in 1..Len(calls) :
         calls[k].auth = session[result.caller].token_info.access_token

\* The songs of a response list, as chart entries.
EntryOf(t) == [position |-> t.position, title |-> t.title, artist |-> t.artist]

\* C2: in every 200 response of create_playlist the stats count the two
\* lists, found + missing = total_songs = the number of chart entries
\* fetched, and every chart entry is in exactly one of found_tracks and
\* missing_tracks.
C2_FoundPlusMissing ==
  CreateAnswered200 =>
    LET b == result.body
        songs == result.songs
        InFound(e) == \E k \in 1..Len(b.found_tracks) : EntryOf(b.found_tracks[k]) = e
        InMissing(e) == \E k \in 1..Len(b.missing_tracks) : b.missing_tracks[k] = e
    IN  /\ b.stats.found + b.stats.missing = b.stats.total_songs
        /\ b.stats.found = Len(b.found_tracks)
        /\ b.stats.missing = Len(b.missing_tracks)
        /\ b.stats.total_songs = Len(songs)
        /\ \A k \in 1..Len(songs) : InFound(songs[k]) # InMissing(songs[k])

\* Two chart entries: one found, one whose search raised.
C2_Witness ==
  /\ CreateAnswered200
  /\ result.body.stats.found = 1
  /\ result.body.stats.missing = 1
  /\ \E k \in 1..Len(calls) : calls[k].api = "search" /\ calls[k].resp.raise

SearchLacksArtist ==
  result.op = "GET /api/search_track" /\ ~Has(result.args, "artist")

\* C4 as stated: a search_track request without the artist parameter is
\* answered 400 whether or not the caller's session holds a credential.
C4_Always400 == SearchLacksArtist => result.status = 400

\* C4 amended: a search_track request without the artist parameter is
\* answered 400 when the caller's session holds a credential and 401 when
\* it does not, with no catalog call either way.
C4_400WhenAuthenticated ==
  SearchLacksArtist =>
    /\ result.status =
         (IF Has(session[result.caller], "token_info") THEN 400 ELSE 401)
    /\ calls = <<>>

C4_Witness ==
  /\ SearchLacksArtist
  /\ Has(result.args, "title")
  /\ Has(session[result.caller], "token_info")
  /\ sp # None
  /\ result.status = 400

\* C5: in every 200 response of create_playlist the status is
\* "partial_success" exactly when at least one track was found and an
\* add-items call failed, and "success" otherwise (also when no track was
\* found).
C5_PartialIffAddFailed ==
  CreateAnswered200 =>
    LET addFailed ==
          \E k \in 1..Len(calls) :
            calls[k].api = "playlist_add_items" /\ calls[k].resp.raise
    IN  result.body.status =
          (IF result.body.stats.found >= 1 /\ addFailed
           THEN "partial_success" ELSE "success")

CreateRan == result.op = "POST /api/create_playlist"

\* The place of a catalog call in the handler's order: the searches, then
\* the two calls of playlist creation, then the add-items calls.
C11_Rank(c) ==
  IF c.api = "search" THEN 1
  ELSE IF c.api = "current_user" THEN 2
  ELSE IF c.api = "user_playlist_create" THEN 3
  ELSE 4

\* The search calls that returned a hit, in call order.
C11_Hits == SelectSeq(calls, LAMBDA c :
              c.api = "search" /\ ~c.resp.raise /\ c.resp.value.tracks.items # <<>>)

\* C11: within one create_playlist request: without a credential in the
\* caller's session the answer is 401 and neither the chart fetch nor any
\* catalog call is made; with an empty chart the answer is 500 and no
\* catalog call is made; otherwise the steps are the chart fetch, then one
\* search_track per chart entry in chart order, then the playlist creation,
\* then at most one add step; every search call precedes every creation
\* call, which precedes every add-items call; a failed creation is answered
\* 500 with no add step and no add-items call; an add step follows only a
\* successful creation with at least one track found, and carries the uris
\* of the hits in chart order.
C11_StepsOrderedAndGated ==
  CreateRan =>
    LET songs == result.songs
        steps == result.steps
        n == Len(songs)
        authed == Has(session[result.caller], "token_info")
        created == \E k \in 1..Len(calls) :
                     calls[k].api = "user_playlist_create" /\ ~calls[k].resp.raise
        addCalls == SelectSeq(calls, LAMBDA c : c.api = "playlist_add_items")
    IN  /\ ~authed =>
             (result.status = 401 /\ ~result.fetched /\ steps = <<>> /\ calls = <<>>)
        /\ (authed /\ ~result.fetched) =>
             (result.status = 500 /\ steps = <<>> /\ calls = <<>>)
        /\ (authed /\ result.fetched /\ songs = <<>>) =>
             (result.status = 500 /\ steps = <<[step |-> "get_chart"]>>
                /\ calls = <<>>)
        /\ (authed /\ songs # <<>>) =>
             /\ Len(steps) \in {n + 2, n + 3}
             /\ steps[1].step = "get_chart"
             /\ \A k \in 1..n :
                  steps[k + 1] = [step |-> "search_track", title |-> songs[k].title,
                                  artist |-> songs[k].artist]
             /\ steps[n + 2].step = "create_playlist"
             /\ \A i \in 1..Len(calls) : \A j \in i..Len(calls) :
                  C11_Rank(calls[i]) <= C11_Rank(calls[j])
             /\ ~created =>
                  (result.status = 500 /\ Len(steps) = n + 2 /\ addCalls = <<>>)
             /\ created => result.status = 200
             /\ addCalls # <<>> => Len(steps) = n + 3
             /\ Len(steps) = n + 3 =>
                  LET add == steps[n + 3]
                      found == result.body.found_tracks
                  IN  /\ add.step = "add_tracks_to_playlist"
                      /\ created
                      /\ found # <<>>
                      /\ Len(add.track_uris) = Len(found)
                      /\ Len(C11_Hits) = Len(found)
                      /\ \A k \in 1..Len(found) :
                           /\ add.track_uris[k] =
                                C11_Hits[k].resp.value.tracks.items[1].uri
                           /\ found[k].spotify_name =
                                C11_Hits[k].resp.value.tracks.items[1].name
                      /\ \A k \in 1..(Len(found) - 1) :
                           found[k].position < found[k + 1].position
                      /\ ItemsOf(addCalls) = add.track_uris

\* Two chart entries, both found at a later query, the playlist created and
\* both uris added in chart order.
C11_Witness ==
  /\ CreateRan /\ result.status = 200
  /\ Len(result.songs) = 2
  /\ Len(result.steps) = 5
  /\ result.steps[5].track_uris = <<1, 2>>
  /\ Len(calls) = 7
  /\ calls[7].api = "playlist_add_items"
  /\ ~calls[7].resp.raise
  /\ playlist_items = <<1, 2>>

ChartRan == result.op = "get_chart"

\* C9: the chart get_chart returns has at most 100 entries, every position
\* is in 1..100, and positions strictly increase along the chart (so no two
\* entries share one).
C9_ChartPositions ==
  ChartRan =>
    LET songs == result.ret IN
      /\ Len(songs) <= 100
      /\ \A k \in 1..Len(songs) : songs[k].position \in 1..100
      /\ \A k \in 1..(Len(songs) - 1) : songs[k].position < songs[k + 1].position

\* More than 100 matched elements, a short title among the first 100.
C9_Witness ==
  /\ ChartRan /\ ~result.fetch.raise
  /\ Len(SongElements(result.fetch.page)) > 100
  /\ Len(result.ret) = 99
  /\ result.ret[99].position = 100
  /\ result.ret[1].position = 2

NoSelectorMatches(page) == \A s \in 1..4 : Select(page, s) = <<>>

\* C10 as stated: a page that matches no primary selector and holds at
\* least one heading element yields a non-empty chart.
C10_FallbackNonEmpty ==
  (ChartRan /\ ~result.fetch.raise /\ NoSelectorMatches(result.fetch.page)
     /\ result.fetch.page # <<>>)
    => result.ret # <<>>

\* C10 amended: on a page that matches no primary selector get_chart scans
\* the level-3 headings only: every entry is the trimmed text of the h3 at
\* its position, and the chart is non-empty exactly when one of the first
\* 100 h3 elements has a text of at least 2 characters after trimming.
C10_FallbackScansH3 ==
  (ChartRan /\ ~result.fetch.raise /\ NoSelectorMatches(result.fetch.page)) =>
    LET h3s == SelectSeq(result.fetch.page, LAMBDA e : e.level = 3)
        songs == result.ret
    IN  /\ \A k \in 1..Len(songs) :
             /\ songs[k].position <= Len(h3s)
             /\ songs[k].title = Strip(h3s[songs[k].position].text)
        /\ songs # <<>> <=>
             \E i \in 1..Min(100, Len(h3s)) : Len(Strip(h3s[i].text)) >= 2

\* Headings of level 2 before the only level-3 headings, which are scanned.
C10_Witness ==
  /\ ChartRan /\ ~result.fetch.raise
  /\ NoSelectorMatches(result.fetch.page)
  /\ Len(result.fetch.page) = 3
  /\ result.fetch.page[1].level = 2
  /\ result.fetch.page[2].level = 3
  /\ Len(result.ret) = 2

====
